---- MODULE Spec2Model ----
(***************************************************************************)
(* lib/two_way_nesting.py: the Author and Book classes with their          *)
(* class-level registries, the derived lookup Author.get_books, the        *)
(* AuthorSchema and BookSchema declarations, and the Schema.dump calls the *)
(* module makes.  Schema.dump is the marshmallow (3.x) library's: the      *)
(* declared fields are visited in declaration order, a field whose         *)
(* attribute the object lacks is skipped, fields.Str / fields.Email        *)
(* serialise through str() and keep None, fields.Nested hands the          *)
(* attribute's value to the nested schema's dump and keeps None.           *)
(***************************************************************************)
EXTENDS Integers, Sequences, FiniteSets, TLC

VARIABLES
  heap,       \* every object constructed so far; an object's identity is its index
  AuthorAll,  \* Author.all: identities, in append order
  BookAll,    \* Book.all: identities, in append order
  pc,         \* "idle" | "dumping" | "done": where the caller of Schema.dump is
  call,       \* the arguments of the dump call in progress
  pos,        \* index of the next element of call.inputs to serialise
  stack,      \* the active _serialize frames, outermost first
  out,        \* the documents finished so far in this call
  result      \* what the call returned (pc = "done")

vars == <<heap, AuthorAll, BookAll, pc, call, pos, stack, out, result>>

(* ------------------------------ bounds -------------------------------- *)

MaxObjects == 3
MaxInputs == 2
ScriptMaxInputs == 3

(* ---------------------------- plain values ---------------------------- *)

Str(s) == [k |-> "str", s |-> s]
Num(n) == [k |-> "int", n |-> n]
None == [k |-> "none"]
Ref(i) == [k |-> "ref", r |-> i]
Map(m) == [k |-> "map", m |-> m]
Missing == [k |-> "missing"]
Doc(d) == [k |-> "doc", d |-> d]
List(l) == [k |-> "list", l |-> l]

(* ------------------------------- models ------------------------------- *)

AuthorObject(name, email) ==
  [cls |-> "Author", attrs |-> [name |-> name, email |-> email]]

BookObject(isbn, title, author) ==
  [cls |-> "Book", attrs |-> [isbn |-> isbn, title |-> title, author |-> author]]

Register_Prepend(registry, id) == <<id>> \o registry

Register(registry, id) == Append(registry, id)

Idle == pc = "idle"

NewAuthor(name, email) ==
  /\ Idle
  /\ heap' = Append(heap, AuthorObject(name, email))
  /\ AuthorAll' = Register(AuthorAll, Len(heap) + 1)
  /\ UNCHANGED <<BookAll, pc, call, pos, stack, out, result>>

NewBook(isbn, title, author) ==
  /\ Idle
  /\ heap' = Append(heap, BookObject(isbn, title, author))
  /\ BookAll' = Register(BookAll, Len(heap) + 1)
  /\ UNCHANGED <<AuthorAll, pc, call, pos, stack, out, result>>

IsSelf_ByValue(h, value, self) ==
  value.k = "ref" /\ h[value.r] = h[self]

IsSelf(h, value, self) == value = Ref(self)

get_books(h, books, self) ==
  SelectSeq(books, LAMBDA book : IsSelf(h, h[book].attrs.author, self))

(* ------------------------------ schemas ------------------------------- *)

Plain(name, kind) == [name |-> name, kind |-> kind, nested |-> ""]
Nested(name, schema) == [name |-> name, kind |-> "Nested", nested |-> schema]

AuthorSchema_NameOnly == <<Plain("name", "Str")>>

AuthorSchema == <<Plain("name", "Str"), Plain("email", "Email")>>

BookSchema_Reordered ==
  <<Plain("title", "Str"), Plain("isbn", "Str"), Nested("author", "AuthorSchema")>>

BookSchema ==
  <<Plain("isbn", "Str"), Plain("title", "Str"), Nested("author", "AuthorSchema")>>

Schemas == {"AuthorSchema", "BookSchema"}

\* The fields a dump visits: the declared ones, in declaration order.
Fields(schema) == IF schema = "AuthorSchema" THEN AuthorSchema ELSE BookSchema

(* What the library reads for a declared field: the object's attribute, a  *)
(* mapping's key, or the marker `missing` when there is none.              *)
get_value_NoneDefault(h, obj, key) ==
  CASE obj.k = "ref" ->
         IF key \in DOMAIN h[obj.r].attrs THEN h[obj.r].attrs[key] ELSE None
    [] obj.k = "map" -> IF key \in DOMAIN obj.m THEN obj.m[key] ELSE None
    [] OTHER -> None

get_value(h, obj, key) ==
  CASE obj.k = "ref" ->
         IF key \in DOMAIN h[obj.r].attrs THEN h[obj.r].attrs[key] ELSE Missing
    [] obj.k = "map" -> IF key \in DOMAIN obj.m THEN obj.m[key] ELSE Missing
    [] OTHER -> Missing

(* fields.Str and fields.Email on dump: None stays None, anything else     *)
(* goes through str().                                                     *)
StrSerialize(value) ==
  CASE value.k = "none" -> None
    [] value.k = "str" -> value
    [] value.k = "int" -> Str(ToString(value.n))
    [] OTHER -> Str("<object>")

(* S.dump(obj) as one value: the document of obj under schema.             *)
RECURSIVE SerializeFrom(_, _, _, _)
SerializeFrom(h, schema, obj, i) ==
  IF i > Len(Fields(schema)) THEN <<>>
  ELSE LET f == Fields(schema)[i]
           v == get_value(h, obj, f.name)
           rest == SerializeFrom(h, schema, obj, i + 1)
       IN  IF v = Missing THEN rest
           ELSE IF f.kind # "Nested" THEN <<<<f.name, StrSerialize(v)>>>> \o rest
           ELSE IF v = None THEN <<<<f.name, None>>>> \o rest
           ELSE <<<<f.name, Doc(SerializeFrom(h, f.nested, v, 1))>>>> \o rest

SchemaDump(h, schema, obj) == Doc(SerializeFrom(h, schema, obj, 1))

(* --------------------------- the dump calls --------------------------- *)

NoCall == [schema |-> "", many |-> FALSE, inputs |-> <<>>]

Frame(schema, obj) == [schema |-> schema, obj |-> obj, idx |-> 1, doc |-> <<>>]

Top == stack[Len(stack)]

Popped == SubSeq(stack, 1, Len(stack) - 1)

SetTop(frame) == [stack EXCEPT ![Len(stack)] = frame]

\* Schema(many=...).dump(inputs): the call is entered, nothing serialised yet.
DumpCall(schema, many, inputs) ==
  /\ Idle
  /\ many \/ Len(inputs) = 1
  /\ pc' = "dumping"
  /\ call' = [schema |-> schema, many |-> many, inputs |-> inputs]
  /\ pos' = 1
  /\ stack' = <<>>
  /\ out' = <<>>
  /\ UNCHANGED <<heap, AuthorAll, BookAll, result>>

\* A pre_dump hook that stores the derived collection on the object.
Enter_PreDumpSetsBooks ==
  /\ pc = "dumping"
  /\ stack = <<>>
  /\ pos <= Len(call.inputs)
  /\ stack' = <<Frame(call.schema, call.inputs[pos])>>
  /\ heap' = [heap EXCEPT ![call.inputs[pos].r].attrs = @ @@ [books |-> None]]
  /\ UNCHANGED <<AuthorAll, BookAll, pc, call, pos, out, result>>

\* _serialize of the next element of the input.
Enter ==
  /\ pc = "dumping"
  /\ stack = <<>>
  /\ pos <= Len(call.inputs)
  /\ stack' = <<Frame(call.schema, call.inputs[pos])>>
  /\ UNCHANGED <<heap, AuthorAll, BookAll, pc, call, pos, out, result>>

NestedTarget_Parent(value, parent) == parent

\* fields.Nested: the nested schema dumps the attribute's value.
NestedTarget(value, parent) == value

\* One declared field of the innermost frame.
FieldStep ==
  /\ pc = "dumping"
  /\ stack # <<>>
  /\ Top.idx <= Len(Fields(Top.schema))
  /\ LET f == Fields(Top.schema)[Top.idx]
         v == get_value(heap, Top.obj, f.name)
         skip == [Top EXCEPT !.idx = @ + 1]
         put(x) == [Top EXCEPT !.idx = @ + 1, !.doc = Append(@, <<f.name, x>>)]
     IN  stack' =
           IF v = Missing THEN SetTop(skip)
           ELSE IF f.kind # "Nested" THEN SetTop(put(StrSerialize(v)))
           ELSE IF v = None THEN SetTop(put(None))
           ELSE Append(stack, Frame(f.nested, NestedTarget(v, Top.obj)))
  /\ UNCHANGED <<heap, AuthorAll, BookAll, pc, call, pos, out, result>>

\* The list comprehension never moves on to the next element.
Exit_NoAdvance ==
  /\ pc = "dumping"
  /\ stack # <<>>
  /\ Top.idx > Len(Fields(Top.schema))
  /\ IF Len(stack) = 1
       THEN /\ stack' = <<>>
            /\ out' = Append(out, Doc(Top.doc))
            /\ pos' = pos
       ELSE LET parent == stack[Len(stack) - 1]
                f == Fields(parent.schema)[parent.idx]
            IN  /\ stack' = [Popped EXCEPT ![Len(stack) - 1] =
                              [parent EXCEPT !.idx = @ + 1,
                                             !.doc = Append(@, <<f.name, Doc(Top.doc)>>)]]
                /\ UNCHANGED <<out, pos>>
  /\ UNCHANGED <<heap, AuthorAll, BookAll, pc, call, result>>

\* The output keeps one copy of equal documents.
Collect_Dedup(docs, doc) ==
  IF \E i \in 1..Len(docs) : docs[i] = doc THEN docs ELSE Append(docs, doc)

\* The list the many-dump builds, in input order.
Collect(docs, doc) == Append(docs, doc)

\* The innermost frame has visited every declared field: its document goes
\* to the enclosing frame's nested field, or to the call's output.
Exit ==
  /\ pc = "dumping"
  /\ stack # <<>>
  /\ Top.idx > Len(Fields(Top.schema))
  /\ IF Len(stack) = 1
       THEN /\ stack' = <<>>
            /\ out' = Collect(out, Doc(Top.doc))
            /\ pos' = pos + 1
       ELSE LET parent == stack[Len(stack) - 1]
                f == Fields(parent.schema)[parent.idx]
            IN  /\ stack' = [Popped EXCEPT ![Len(stack) - 1] =
                              [parent EXCEPT !.idx = @ + 1,
                                             !.doc = Append(@, <<f.name, Doc(Top.doc)>>)]]
                /\ UNCHANGED <<out, pos>>
  /\ UNCHANGED <<heap, AuthorAll, BookAll, pc, call, result>>

Return ==
  /\ pc = "dumping"
  /\ stack = <<>>
  /\ pos > Len(call.inputs)
  /\ pc' = "done"
  /\ result' = IF call.many THEN List(out) ELSE out[1]
  /\ UNCHANGED <<heap, AuthorAll, BookAll, call, pos, stack, out>>

\* The caller has the result (pprint) and goes on.
Consume ==
  /\ pc = "done"
  /\ pc' = "idle"
  /\ call' = NoCall
  /\ pos' = 1
  /\ out' = <<>>
  /\ result' = None
  /\ UNCHANGED <<heap, AuthorAll, BookAll, stack>>

(* --------------------------- specification ---------------------------- *)

Names == {Str("William Faulkner"), Str("Colson Whitehead")}
Emails == {Str("will@email.com")}
Isbns == {Num(385542364)}
Titles == {Str("As I Lay Dying")}

\* What a caller may pass as a Book's author: a registered Author, None, or
\* a mapping that has a name and no email.
AuthorArgs ==
  {Ref(AuthorAll[i]) : i \in 1..Len(AuthorAll)}
    \cup {None, Map([name |-> Str("Anonymous")])}

SeqsUpTo(S, n) == UNION {[1..m -> S] : m \in 0..n}

Objects == 1..Len(heap)

Init ==
  /\ heap = <<>>
  /\ AuthorAll = <<>>
  /\ BookAll = <<>>
  /\ pc = "idle"
  /\ call = NoCall
  /\ pos = 1
  /\ stack = <<>>
  /\ out = <<>>
  /\ result = None

Construct ==
  /\ Len(heap) < MaxObjects
  /\ \/ \E name \in Names, email \in Emails : NewAuthor(name, email)
     \/ \E isbn \in Isbns, title \in Titles, author \in AuthorArgs :
          NewBook(isbn, title, author)

Dump ==
  \E schema \in Schemas :
    \/ \E o \in Objects : DumpCall(schema, FALSE, <<Ref(o)>>)
    \/ \E inputs \in SeqsUpTo({Ref(o) : o \in Objects}, MaxInputs) :
         DumpCall(schema, TRUE, inputs)

Next ==
  \/ Construct
  \/ Dump
  \/ Enter
  \/ FieldStep
  \/ Exit
  \/ Return
  \/ Consume

Spec == Init /\ [][Next]_vars

(* The module's own run: statements 45-49 in order, then dump calls over   *)
(* the five objects, the calls of lines 54 and 60 among them.              *)

author_1 == 1
book_1 == 2
book_2 == 3
author_2 == 4
book_3 == 5

ScriptConstruct ==
  \/ Len(heap) = 0 /\ NewAuthor(Str("William Faulkner"), Str("will@email.com"))
  \/ Len(heap) = 1
       /\ NewBook(Str("067973225X"), Str("As I Lay Dying"), Ref(author_1))
  \/ Len(heap) = 2
       /\ NewBook(Str("0679732241"), Str("The Sound and the Fury"), Ref(author_1))
  \/ Len(heap) = 3 /\ NewAuthor(Str("Colson Whitehead"), Str("colson@email.com"))
  \/ Len(heap) = 4
       /\ NewBook(Str("0385542364"), Str("The Underground Railroad"), Ref(author_2))

ScriptDump ==
  /\ Len(heap) = book_3
  /\ \E schema \in Schemas :
       \/ \E o \in Objects : DumpCall(schema, FALSE, <<Ref(o)>>)
       \/ \E inputs \in SeqsUpTo({Ref(o) : o \in Objects}, ScriptMaxInputs) :
            DumpCall(schema, TRUE, inputs)

ScriptNext ==
  \/ ScriptConstruct
  \/ ScriptDump
  \/ Enter
  \/ FieldStep
  \/ Exit
  \/ Return
  \/ Consume

ScriptSpec == Init /\ [][ScriptNext]_vars

(* ------------------------------ claims -------------------------------- *)

Done == pc = "done"

\* The documents the finished call returned, one per input.
Docs == IF call.many THEN result.l ELSE <<result>>

Inputs == 1..Len(call.inputs)

Obj(i) == heap[call.inputs[i].r]

Keys(d) == [i \in 1..Len(d) |-> d[i][1]]

HasKey(d, key) == \E i \in 1..Len(d) : d[i][1] = key

Lookup(d, key) == d[CHOOSE i \in 1..Len(d) : d[i][1] = key][2]

DeclaredKeys(schema) ==
  IF schema = "AuthorSchema" THEN <<"name", "email">>
  ELSE <<"isbn", "title", "author">>

HasAttr(value, key) ==
  CASE value.k = "ref" -> key \in DOMAIN heap[value.r].attrs
    [] value.k = "map" -> key \in DOMAIN value.m
    [] OTHER -> FALSE

HasAllAttrs(value, schema) ==
  \A i \in 1..Len(DeclaredKeys(schema)) : HasAttr(value, DeclaredKeys(schema)[i])

PresentKeys(value, schema) ==
  SelectSeq(DeclaredKeys(schema), LAMBDA key : HasAttr(value, key))

Authors == {o \in Objects : heap[o].cls = "Author"}
Books == {o \in Objects : heap[o].cls = "Book"}

BooksOf(a) == {b \in Books : heap[b].attrs.author = Ref(a)}

\* C1: the document of an object that has every attribute its schema declares
\* has exactly the declared field names as its keys, in declaration order:
\* (name, email) for AuthorSchema and (isbn, title, author) for BookSchema.
C1_KeysInDeclaredOrder ==
  Done =>
    \A i \in Inputs :
      HasAllAttrs(call.inputs[i], call.schema) =>
        Keys(Docs[i].d) = DeclaredKeys(call.schema)

C1_Witness ==
  /\ Done
  /\ ~call.many
  /\ call.schema = "BookSchema"
  /\ Obj(1).cls = "Book"
  /\ Keys(result.d) = <<"isbn", "title", "author">>

\* C2: a many-dump returns one document per input, the i-th being the single
\* dump of the i-th input: same length, same order, duplicates kept, the
\* empty input giving the empty list.
C2_ManyIsElementwise ==
  (Done /\ call.many) =>
    /\ Len(result.l) = Len(call.inputs)
    /\ \A i \in Inputs : result.l[i] = SchemaDump(heap, call.schema, call.inputs[i])

C2_Witness ==
  /\ Done
  /\ call.many
  /\ Len(call.inputs) = 2
  /\ call.inputs[1] = call.inputs[2]
  /\ Len(result.l) = 2
  /\ result.l[1].d # <<>>

\* C3 as stated: for every Book b the value under author in BookSchema's
\* document of b is AuthorSchema's document of b.author.
C3_NestedEqualsAuthorDump ==
  (Done /\ call.schema = "BookSchema") =>
    \A i \in Inputs :
      Obj(i).cls = "Book" =>
        Lookup(Docs[i].d, "author")
          = SchemaDump(heap, "AuthorSchema", Obj(i).attrs.author)

\* C3 amended: for every Book b whose author is not None the value under
\* author is AuthorSchema's document of b.author, so two books with the same
\* author carry equal author documents; a None author is dumped as None.
C3_NestedEqualsAuthorDumpUnlessNone ==
  (Done /\ call.schema = "BookSchema") =>
    /\ \A i \in Inputs :
         Obj(i).cls = "Book" =>
           Lookup(Docs[i].d, "author")
             = IF Obj(i).attrs.author = None THEN None
               ELSE SchemaDump(heap, "AuthorSchema", Obj(i).attrs.author)
    /\ \A i, j \in Inputs :
         (/\ Obj(i).cls = "Book"
          /\ Obj(j).cls = "Book"
          /\ Obj(i).attrs.author = Obj(j).attrs.author)
           => Lookup(Docs[i].d, "author") = Lookup(Docs[j].d, "author")

C3_Witness ==
  /\ Done
  /\ call.many
  /\ call.schema = "BookSchema"
  /\ Len(call.inputs) = 2
  /\ call.inputs[1] # call.inputs[2]
  /\ Obj(1).cls = "Book"
  /\ Obj(2).cls = "Book"
  /\ Obj(1).attrs.author = Obj(2).attrs.author
  /\ Obj(1).attrs.author.k = "ref"
  /\ Lookup(result.l[1].d, "author").k = "doc"

\* Whether seq lists the members of set, each once, in ascending position of
\* the registry `order`.
ListsInOrder(seq, set, order) ==
  /\ Len(seq) = Cardinality(set)
  /\ \A i \in 1..Len(seq) : seq[i] \in set
  /\ \A b \in set : \E i \in 1..Len(seq) : seq[i] = b
  /\ \A i, j \in 1..Len(seq) :
       i < j => \E m, n \in 1..Len(order) :
                  m < n /\ order[m] = seq[i] /\ order[n] = seq[j]

Pair(key, value) == <<key, value>>

\* C7: for the module's data, BookSchema(many=True).dump([book_1, book_2,
\* book_3]) is three documents in that order, each with isbn, title and the
\* name and email of the book's own author, and AuthorSchema(many=True)
\* .dump([author_1, author_2]) is two documents with name and email only.
C7_ScriptResults ==
  /\ (/\ Done
      /\ call = [schema |-> "BookSchema", many |-> TRUE,
                 inputs |-> <<Ref(book_1), Ref(book_2), Ref(book_3)>>])
       => result = List(<<
            Doc(<<Pair("isbn", Str("067973225X")),
                  Pair("title", Str("As I Lay Dying")),
                  Pair("author", Doc(<<Pair("name", Str("William Faulkner")),
                                       Pair("email", Str("will@email.com"))>>))>>),
            Doc(<<Pair("isbn", Str("0679732241")),
                  Pair("title", Str("The Sound and the Fury")),
                  Pair("author", Doc(<<Pair("name", Str("William Faulkner")),
                                       Pair("email", Str("will@email.com"))>>))>>),
            Doc(<<Pair("isbn", Str("0385542364")),
                  Pair("title", Str("The Underground Railroad")),
                  Pair("author", Doc(<<Pair("name", Str("Colson Whitehead")),
                                       Pair("email", Str("colson@email.com"))>>))>>)>>)
  /\ (/\ Done
      /\ call = [schema |-> "AuthorSchema", many |-> TRUE,
                 inputs |-> <<Ref(author_1), Ref(author_2)>>])
       => result = List(<<
            Doc(<<Pair("name", Str("William Faulkner")),
                  Pair("email", Str("will@email.com"))>>),
            Doc(<<Pair("name", Str("Colson Whitehead")),
                  Pair("email", Str("colson@email.com"))>>)>>)

C7_Witness ==
  /\ Done
  /\ call = [schema |-> "BookSchema", many |-> TRUE,
             inputs |-> <<Ref(book_1), Ref(book_2), Ref(book_3)>>]
  /\ Len(result.l) = 3
  /\ AuthorAll = <<author_1, author_2>>
  /\ BookAll = <<book_1, book_2, book_3>>

InDump == pc = "dumping" \/ (pc = "idle" /\ pc' = "dumping")

RECURSIVE CostFrom(_, _)
CostFrom(schema, i) ==
  IF i > Len(Fields(schema)) THEN 0
  ELSE (IF Fields(schema)[i].kind = "Nested"
          THEN 2 + CostFrom(Fields(schema)[i].nested, 1)
          ELSE 1)
       + CostFrom(schema, i + 1)

FrameCost(n) ==
  1 + CostFrom(stack[n].schema, IF n = Len(stack) THEN stack[n].idx ELSE stack[n].idx + 1)

RECURSIVE StackCost(_)
StackCost(n) == IF n = 0 THEN 0 ELSE FrameCost(n) + StackCost(n - 1)

\* An upper bound on the steps the dump in progress still takes.
Measure ==
  IF pc # "dumping" THEN 0
  ELSE 1 + StackCost(Len(stack))
         + (Len(call.inputs) + 1 - pos - (IF stack = <<>> THEN 0 ELSE 1))
             * (2 + CostFrom(call.schema, 1))

DumpStep == Enter \/ FieldStep \/ Exit \/ Return

\* C9: with the schemas as declared every dump terminates: a dump in progress
\* always has a next step, every step lowers a natural-number bound on the
\* steps that remain, at most two schema levels are ever active, and each
\* input is entered once, in order.
C9_DumpTerminates ==
  /\ [](pc = "dumping" =>
          /\ ENABLED DumpStep
          /\ Len(stack) <= 2
          /\ Measure > 0
          /\ Len(out) = pos - 1
          /\ pos <= Len(call.inputs) + 1)
  /\ [][pc = "dumping" => Measure' < Measure]_vars
  /\ [](Done => Len(out) = Len(call.inputs))

C9_Witness ==
  /\ pc = "dumping"
  /\ Len(stack) = 2
  /\ pos = 2
  /\ stack[1].obj.k = "ref"
  /\ stack[2].obj.k = "ref"
  /\ heap[stack[2].obj.r].cls = "Author"
  /\ \E b \in BooksOf(stack[2].obj.r) : stack[1].obj = Ref(b)

\* seq lists the members of set, each once, in ascending identity, which is
\* construction order.
AscendingEnum(seq, set) ==
  /\ Len(seq) = Cardinality(set)
  /\ \A i \in 1..Len(seq) : seq[i] \in set
  /\ \A i, j \in 1..Len(seq) : i < j => seq[i] < seq[j]

IsPrefix(a, b) == Len(a) <= Len(b) /\ SubSeq(b, 1, Len(a)) = a

Built(cls) == Len(heap') = Len(heap) + 1 /\ heap'[Len(heap')].cls = cls

Range(seq) == {seq[i] : i \in 1..Len(seq)}

\* C10: Author.all and Book.all hold exactly the Authors and the Books
\* constructed so far, each once, in construction order; constructing an
\* Author leaves Book.all alone and constructing a Book leaves Author.all
\* alone; both only grow; get_books of an Author is the subsequence of
\* Book.all whose author is that object, so distinct Authors, equal in name
\* and email or not, share no book, and the Books of registered Authors are
\* split among their Authors' get_books.
C10_Registries ==
  /\ [](/\ AscendingEnum(AuthorAll, Authors)
        /\ AscendingEnum(BookAll, Books)
        /\ \A a \in Range(AuthorAll) :
             ListsInOrder(get_books(heap, BookAll, a), BooksOf(a), BookAll)
        /\ \A a1, a2 \in Range(AuthorAll) :
             a1 # a2 =>
               Range(get_books(heap, BookAll, a1))
                 \cap Range(get_books(heap, BookAll, a2)) = {}
        /\ \A b \in Range(BookAll) :
             (heap[b].attrs.author.k = "ref"
                /\ heap[b].attrs.author.r \in Range(AuthorAll))
               => Cardinality({a \in Range(AuthorAll) :
                                 b \in Range(get_books(heap, BookAll, a))}) = 1)
  /\ [][/\ IsPrefix(AuthorAll, AuthorAll')
        /\ IsPrefix(BookAll, BookAll')
        /\ IsPrefix(heap, heap')
        /\ Built("Author") =>
             (BookAll' = BookAll /\ AuthorAll' = Append(AuthorAll, Len(heap')))
        /\ Built("Book") =>
             (AuthorAll' = AuthorAll /\ BookAll' = Append(BookAll, Len(heap')))]_vars

C10_Witness ==
  /\ Len(AuthorAll) = 2
  /\ Len(BookAll) = 1
  /\ heap[AuthorAll[1]] = heap[AuthorAll[2]]
  /\ get_books(heap, BookAll, AuthorAll[2]) = BookAll
  /\ get_books(heap, BookAll, AuthorAll[1]) = <<>>

====
